---- MODULE Spec2Model ----
(***************************************************************************)
(* A model of StegoAnalyzer (stego_analyzer.py): the availability probe,   *)
(* the seven tool runners, analyze_file and the session state they share   *)
(* (the results store and the scratch directory).  External processes are  *)
(* the environment: every launch draws its outcome nondeterministically.   *)
(***************************************************************************)
EXTENDS Integers, Sequences, FiniteSets, TLC

\* ------------------------------------------------------------------ bounds
\* analyze_file calls per session
MaxCalls == 2
\* launches per session whose outcome is not the installed tool's usual one
MaxFaults == 1
\* length of a side-channel file, in bytes
MaxBytes == 4
\* length of the string tool's stdout, in characters
MaxOut == 8
\* length of the metadata reader's stdout, in tokens
MaxJson == 5

\* ------------------------------------------------------- program constants
\* run_strings: "if len(line) > 5"
MinInteresting == 5
\* run_strings: "interesting_strings[:100]"
MaxInteresting == 100

\* ------------------------------------------------------------------- tools
\* The order of check_tool_availability's dict and of analyze_file's ifs.
ToolOrder == <<"zsteg", "steghide", "outguess", "exiftool", "binwalk", "foremost", "strings">>

ToolSet == {ToolOrder[i] : i \in 1..Len(ToolOrder)}

\* The tools that write their product to a file of the scratch directory
\* (steghide_output.txt, outguess_output.txt, foremost_output/audit.txt).
SideTools == {"steghide", "outguess", "foremost"}

\* How a subprocess.run call can end: the process exits with 0 or with
\* another code, subprocess.TimeoutExpired, FileNotFoundError, or another
\* OSError (PermissionError: the file is there and may not be executed).
Kinds == {"exit0", "exitN", "timeout", "missing", "oserror"}

\* ----------------------------------------------------------------- helpers
Min(a, b) == IF a < b THEN a ELSE b

\* All sequences over S of length at most n.
SeqsUpTo(S, n) == UNION {[1..k -> S] : k \in 0..n}

\* s[:n]
Take(s, n) == SubSeq(s, 1, Min(n, Len(s)))

\* ------------------------------------------------------------ dictionaries
\* A Python dict keeps its keys in insertion order: a sequence of
\* [key, val] records without duplicate keys.
DictKeys(d) == [i \in 1..Len(d) |-> d[i].key]

DictHas(d, k) == \E i \in 1..Len(d) : d[i].key = k

DictGet(d, k) == d[CHOOSE i \in 1..Len(d) : d[i].key = k].val

\* d[k] = v: a present key keeps its place, a new key goes last.
DictSet(d, k, v) ==
  IF DictHas(d, k)
  THEN [i \in 1..Len(d) |-> IF d[i].key = k THEN [key |-> k, val |-> v] ELSE d[i]]
  ELSE Append(d, [key |-> k, val |-> v])

\* ------------------------------------------------------ availability probe
\* _check_command with the --version launch ending v and the -h launch (if
\* it is made) ending h.  raised: an exception leaves _check_command.
check_command(v, h) ==
  IF v = "exit0" THEN
    \* return result.returncode == 0
    [raised |-> FALSE, ret |-> TRUE, attempts |-> <<"--version">>]
  ELSE IF v = "exitN" THEN
    \* subprocess.run without check=True raises no CalledProcessError
    [raised |-> FALSE, ret |-> FALSE, attempts |-> <<"--version">>]
  ELSE IF v \in {"timeout", "missing"} THEN
    \* except (TimeoutExpired, FileNotFoundError, CalledProcessError): the
    \* -h launch, under a bare except
    [raised |-> FALSE, ret |-> (h = "exit0"), attempts |-> <<"--version", "-h">>]
  ELSE
    \* any other exception of the --version launch is not caught
    [raised |-> TRUE, ret |-> FALSE, attempts |-> <<"--version">>]

\* What a call returns to its caller: a value, or an exception on its way up.
Return(r) == [raised |-> FALSE, value |-> r]

Raise == [raised |-> TRUE]

\* ---------------------------------------------------- side-channel files
\* A file of the scratch directory: absent, or its bytes.
NoFile == [exists |-> FALSE]

File(bytes) == [exists |-> TRUE, data |-> bytes]

\* The bytes the models' files are made of: an ASCII letter, the two bytes
\* of a two-byte UTF-8 sequence (0xC3 0xA9), and 0xFF, which no UTF-8 text
\* holds.  Lead bytes of longer sequences (0xE0 and up) are left out.
ByteAlphabet == {65, 195, 169, 255}

RECURSIVE utf8_decode(_, _)
\* bytes.decode('utf-8', errors) as a sequence of code points, for errors in
\* {"ignore", "replace"}: an invalid start byte, a lead byte without its
\* continuation byte, and a lead byte at the end are one-byte errors.
utf8_decode(b, errors) ==
  IF b = <<>> THEN <<>>
  ELSE IF Head(b) < 128 THEN
    <<Head(b)>> \o utf8_decode(Tail(b), errors)
  ELSE IF Head(b) \in 194..223 /\ Len(b) >= 2 /\ b[2] \in 128..191 THEN
    <<(Head(b) - 192) * 64 + (b[2] - 128)>> \o utf8_decode(SubSeq(b, 3, Len(b)), errors)
  ELSE
    (IF errors = "replace" THEN <<65533>> ELSE <<>>) \o utf8_decode(Tail(b), errors)

\* the read-back, were the file opened with errors='replace'
read_side_file_replace(f) ==
  IF f.exists THEN utf8_decode(f.data, "replace") ELSE <<>>

\* extracted_content = ""; if os.path.exists(output_file):
\*   open(output_file, 'r', encoding='utf-8', errors='ignore').read()
read_side_file(f) ==
  IF f.exists THEN utf8_decode(f.data, "ignore") ELSE <<>>

\* ------------------------------------------------------ string extraction
\* The characters of the string tool's stdout in the model.
Chars == {"a", " ", "\n"}

Whitespace == {" ", "\n", "\t", "\r"}

\* The least index of sep in s, or 0.
IndexOf(s, sep) ==
  IF \E i \in 1..Len(s) : s[i] = sep
  THEN CHOOSE i \in 1..Len(s) : s[i] = sep /\ \A j \in 1..(i - 1) : s[j] # sep
  ELSE 0

RECURSIVE split(_, _)
\* str.split(sep): the pieces between the separators, empty pieces kept.
split(s, sep) ==
  IF IndexOf(s, sep) = 0 THEN <<s>>
  ELSE <<SubSeq(s, 1, IndexOf(s, sep) - 1)>>
         \o split(SubSeq(s, IndexOf(s, sep) + 1, Len(s)), sep)

RECURSIVE lstrip(_)
lstrip(s) ==
  IF s # <<>> /\ Head(s) \in Whitespace THEN lstrip(Tail(s)) ELSE s

RECURSIVE rstrip(_)
rstrip(s) ==
  IF s # <<>> /\ s[Len(s)] \in Whitespace THEN rstrip(SubSeq(s, 1, Len(s) - 1)) ELSE s

\* str.strip()
strip(s) == rstrip(lstrip(s))

RECURSIVE interesting_of(_)
\* run_strings' loop: each line stripped, kept if the stripped line is
\* longer than 5 characters.
interesting_of(lines) ==
  IF lines = <<>> THEN <<>>
  ELSE IF Len(strip(Head(lines))) > MinInteresting
  THEN <<strip(Head(lines))>> \o interesting_of(Tail(lines))
  ELSE interesting_of(Tail(lines))

\* ------------------------------------------------------------------- JSON
\* The metadata reader's stdout is a sequence of tokens: the brackets and
\* the comma of an array, "o" for the text of a non-empty JSON object,
\* a blank, and "x" for text that is not JSON.
JsonTokens == {"[", "]", ",", "o", " ", "x"}

JsonObject == [t |-> "object", size |-> 1]

\* metadata = {}
EmptyDict == [t |-> "object", size |-> 0]

JsonFail == [ok |-> FALSE]

RECURSIVE skip_ws(_, _)
\* The first index from i on that holds no blank (Len(s) + 1 if none).
skip_ws(s, i) ==
  IF i <= Len(s) /\ s[i] = " " THEN skip_ws(s, i + 1) ELSE i

RECURSIVE parse_value(_, _)
RECURSIVE parse_items(_, _, _, _)
\* json's scanner at index i: [ok, val, end], end the index after the value.
parse_value(s, i) ==
  IF i > Len(s) THEN JsonFail
  ELSE IF s[i] = "o" THEN [ok |-> TRUE, val |-> JsonObject, end |-> i + 1]
  ELSE IF s[i] = "[" THEN parse_items(s, skip_ws(s, i + 1), <<>>, TRUE)
  ELSE JsonFail

\* json's JSONArray after "[" (first) or after a comma: the items so far are
\* acc.  "]" closes an empty array only right after "[".
parse_items(s, i, acc, first) ==
  IF i > Len(s) THEN JsonFail
  ELSE IF first /\ s[i] = "]" THEN
    [ok |-> TRUE, val |-> [t |-> "array", items |-> <<>>], end |-> i + 1]
  ELSE
    LET v == parse_value(s, i) IN
    IF ~v.ok THEN JsonFail
    ELSE
      LET j == skip_ws(s, v.end) IN
      IF j > Len(s) THEN JsonFail
      ELSE IF s[j] = "]" THEN
        [ok |-> TRUE, val |-> [t |-> "array", items |-> Append(acc, v.val)], end |-> j + 1]
      ELSE IF s[j] = "," THEN
        parse_items(s, skip_ws(s, j + 1), Append(acc, v.val), FALSE)
      ELSE JsonFail

\* json.loads(s): one value between blanks and nothing after it; ok = FALSE
\* is json.JSONDecodeError.
json_loads(s) ==
  LET v == parse_value(s, skip_ws(s, 1)) IN
  IF v.ok /\ skip_ws(s, v.end) > Len(s) THEN [ok |-> TRUE, val |-> v.val]
  ELSE JsonFail

\* result.stdout.strip().startswith('[')
starts_with_array(s) == strip(s) # <<>> /\ Head(strip(s)) = "["

\* ---------------------------------------------------------------- runners
\* A launch of an external process, as the environment decides it: how it
\* ends (kind), what it printed, and whether it wrote its side-channel file
\* (wrote, with the bytes data) before it ended.
Ran(o) == o.kind \in {"exit0", "exitN"}

\* The exception subprocess.run raises for a launch that did not end in an
\* exit code.
ExcOf(kind) ==
  CASE kind = "timeout" -> "TimeoutExpired"
    [] kind = "missing" -> "FileNotFoundError"
    [] kind = "oserror" -> "PermissionError"

\* {"error": "<tool> not available"}
not_available(t) == [error |-> <<t, "not available">>]

\* {"error": f"<tool> error: {str(e)}"}
error_result(t, e) == [error |-> <<t, "error", e>>]

\* run_zsteg: chk is its own _check_command('zsteg'), o the zsteg -a launch.
run_zsteg(chk, o) ==
  IF chk.raised THEN Raise
  ELSE IF ~chk.ret THEN Return(not_available("zsteg"))
  ELSE IF o.kind = "timeout" THEN Return([error |-> <<"zsteg", "analysis timed out">>])
  ELSE IF ~Ran(o) THEN Return(error_result("zsteg", ExcOf(o.kind)))
  ELSE Return([tool |-> "zsteg", output |-> o.stdout, errors |-> o.stderr,
               success |-> (o.kind = "exit0")])

\* run_steghide and run_outguess (t names which): f is the side-channel
\* file as it is when the launch has ended.
run_extractor(t, chk, o, f) ==
  IF chk.raised THEN Raise
  ELSE IF ~chk.ret THEN Return(not_available(t))
  ELSE IF ~Ran(o) THEN Return(error_result(t, ExcOf(o.kind)))
  ELSE Return([tool |-> t, output |-> o.stdout, errors |-> o.stderr,
               extracted_content |-> read_side_file(f),
               success |-> (o.kind = "exit0")])

\* The metadata run_exiftool takes from the stdout s; raised is the
\* IndexError of json.loads(s)[0], which "except json.JSONDecodeError" lets
\* through.
exiftool_metadata(s) ==
  IF s = <<>> THEN Return(EmptyDict)
  ELSE IF ~starts_with_array(s) THEN Return(EmptyDict)
  ELSE IF ~json_loads(s).ok THEN Return(EmptyDict)
  ELSE IF json_loads(s).val.items = <<>> THEN Raise
  ELSE Return(json_loads(s).val.items[1])

run_exiftool(chk, o) ==
  IF chk.raised THEN Raise
  ELSE IF ~chk.ret THEN Return(not_available("exiftool"))
  ELSE IF ~Ran(o) THEN Return(error_result("exiftool", ExcOf(o.kind)))
  ELSE IF exiftool_metadata(o.stdout).raised THEN Return(error_result("exiftool", "IndexError"))
  ELSE Return([tool |-> "exiftool", metadata |-> exiftool_metadata(o.stdout).value,
               raw_output |-> o.stdout, errors |-> o.stderr,
               success |-> (o.kind = "exit0")])

\* run_binwalk: o is the binwalk -e launch, o2 the signature launch after it.
run_binwalk(chk, o, o2) ==
  IF chk.raised THEN Raise
  ELSE IF ~chk.ret THEN Return(not_available("binwalk"))
  ELSE IF ~Ran(o) THEN Return(error_result("binwalk", ExcOf(o.kind)))
  ELSE IF ~Ran(o2) THEN Return(error_result("binwalk", ExcOf(o2.kind)))
  ELSE Return([tool |-> "binwalk", signatures |-> o2.stdout,
               extraction_output |-> o.stdout, errors |-> o.stderr,
               extract_dir |-> "binwalk_extract", success |-> (o.kind = "exit0")])

\* run_foremost: f is foremost_output/audit.txt when the launch has ended.
run_foremost(chk, o, f) ==
  IF chk.raised THEN Raise
  ELSE IF ~chk.ret THEN Return(not_available("foremost"))
  ELSE IF ~Ran(o) THEN Return(error_result("foremost", ExcOf(o.kind)))
  ELSE Return([tool |-> "foremost", output |-> o.stdout, errors |-> o.stderr,
               audit |-> read_side_file(f), output_dir |-> "foremost_output",
               success |-> (o.kind = "exit0")])

run_strings(chk, o) ==
  IF chk.raised THEN Raise
  ELSE IF ~chk.ret THEN Return(not_available("strings"))
  ELSE IF ~Ran(o) THEN Return(error_result("strings", ExcOf(o.kind)))
  ELSE Return([tool |-> "strings", all_strings |-> o.stdout,
               interesting_strings |->
                 Take(interesting_of(split(o.stdout, "\n")), MaxInteresting),
               total_strings |-> Len(split(o.stdout, "\n")),
               errors |-> o.stderr, success |-> (o.kind = "exit0")])

\* The runner analyze_file calls for tool t.
run_tool(t, chk, o, o2, f) ==
  CASE t = "zsteg" -> run_zsteg(chk, o)
    [] t \in {"steghide", "outguess"} -> run_extractor(t, chk, o, f)
    [] t = "exiftool" -> run_exiftool(chk, o)
    [] t = "binwalk" -> run_binwalk(chk, o, o2)
    [] t = "foremost" -> run_foremost(chk, o, f)
    [] t = "strings" -> run_strings(chk, o)

\* ------------------------------------------------------------- environment
\* The paths a session is asked to analyze, and those that exist.
Paths == {"a.png", "b.png", "gone.png"}

ExistingPaths == {"a.png", "b.png"}

\* the path test, were every path taken to exist
path_exists_always(p) == TRUE

\* os.path.exists(file_path)
path_exists(p) == p \in ExistingPaths

\* os.path.getsize(file_path)
FileSize(p) == IF p = "a.png" THEN 0 ELSE 3

\* What an extraction tool finds hidden in a file and writes to its
\* side-channel file: b.png's payload holds a byte that is not UTF-8.
Payload(p) == IF p = "a.png" THEN <<65>> ELSE <<65, 255, 195, 169>>

\* The stdouts a tool's launch may print.
Stdouts(t) ==
  CASE t = "strings" -> {<<>>, <<"a", "a", "a", "a", "a", "a", "\n">>, <<" ", "a", "\n", "a">>}
    [] t = "exiftool" -> {<<>>, <<"[", "o", "]">>, <<"[", "]">>, <<"x">>}
    [] OTHER -> {<<>>, <<"a">>}

\* What an installed tool usually does: it exits 0, prints its findings and
\* (an extraction tool) writes its side-channel file.
Usual(t, p) ==
  [kind |-> "exit0",
   stdout |-> (CASE t = "strings" -> <<"a", "a", "a", "a", "a", "a", "\n">>
                 [] t = "exiftool" -> <<"[", "o", "]">>
                 [] OTHER -> <<"a">>),
   stderr |-> <<>>,
   wrote |-> (t \in SideTools),
   data |-> (IF t \in SideTools THEN Payload(p) ELSE <<>>)]

\* Every way a launch of tool t on path p can go.  A launch that never
\* started printed and wrote nothing; one that timed out may have written.
Launches(t, p) ==
  {o \in [kind : Kinds, stdout : Stdouts(t), stderr : {<<>>},
          wrote : BOOLEAN, data : {<<>>, Payload(p)}] :
     /\ o.wrote => (t \in SideTools /\ o.kind \notin {"missing", "oserror"})
     /\ o.data = (IF o.wrote THEN Payload(p) ELSE <<>>)
     /\ ~Ran(o) => o.stdout = <<>>}

\* The launch of a tool that is not on the machine: FileNotFoundError.
Absent == [kind |-> "missing", stdout |-> <<>>, stderr |-> <<>>, wrote |-> FALSE, data |-> <<>>]

\* The machines a session may run on: no tool installed, all of them, or all
\* but one.
InstalledSets == {{}, ToolSet} \cup {ToolSet \ {t} : t \in ToolSet}

\* ------------------------------------------------------------------- state
VARIABLES
  installed,        \* environment: the tools that are on the machine
  faults,           \* launches so far that did not go the usual way
  calls,            \* analyze_file calls so far
  pc,               \* where analyze_file is: idle, probe, run
  file_path,        \* analyze_file's argument
  idx,              \* the tool (index of ToolOrder) the call is at
  available_tools,  \* check_tool_availability's dict, as far as it is built
  report,           \* analyze_file's local results
  results,          \* self.results, the process-wide store
  temp_dir,         \* the side-channel files of self.temp_dir
  ret,              \* how the last analyze_file call ended
  invoked,          \* history: the run_* functions this call has called
  probed,           \* history: the tools this call has launched, in order
  created,          \* history: the side files written during this call
  last_check,       \* history: the last _check_command call
  recheck_failed,   \* history: the tools whose runner's own probe said no
  arg,              \* the input of a function called on its own
  out,              \* its result
  temp_exists,      \* the directory self.temp_dir exists
  proc,             \* the process: running, exited
  exit_status,      \* its exit status
  main_pc,          \* where main() is
  args,             \* main's parsed arguments
  console,          \* the lines main has printed
  handler,          \* the except clause of main that ran
  document,         \* the JSON document the last save wrote
  window,           \* root.mainloop() is running
  analyze_btn,      \* state of the Analyze File button
  progress,         \* the progress bar: stopped, running
  status,           \* status_var
  current_file,     \* StegoGUI.current_file
  gui_results,      \* StegoGUI.results
  results_text,     \* the lines of the results area
  after_queue,      \* callbacks posted with root.after, not yet run
  spawned,          \* run_analysis threads started, not yet in analyze_file
  running,          \* run_analysis threads in analyze_file or about to post
  started,          \* history: analyses started by start_analysis
  handled           \* history: completion and error callbacks that ran

vars == <<installed, faults, calls, pc, file_path, idx, available_tools, report,
          results, temp_dir, ret, invoked, probed, created, last_check,
          recheck_failed, arg, out, temp_exists, proc, exit_status, main_pc, args,
          console, handler, document, window, analyze_btn, progress, status,
          current_file, gui_results, results_text, after_queue, spawned,
          running, started, handled>>

unit_vars == <<arg, out>>

session_vars == <<installed, faults, calls, pc, file_path, idx, available_tools,
                  report, results, temp_dir, ret, invoked, probed, created, last_check,
                  recheck_failed, temp_exists>>

\* The state of the two front ends: main() and StegoGUI.
cli_vars == <<main_pc, args, console, handler>>

gui_vars == <<window, analyze_btn, progress, status, current_file, gui_results,
              results_text, after_queue, spawned, running, started, handled>>

front_vars == <<proc, exit_status, document, cli_vars, gui_vars>>

NoReturn == [kind |-> "none"]

Returned(v) == [kind |-> "value", value |-> v]

Raised == [kind |-> "raised"]

\* {"error": "File not found"}
FileNotFound == [error |-> "File not found"]

\* analyze_file's locals while no call has assigned them.
NoReport == [file_path |-> "", file_size |-> 0, analysis_results |-> <<>>]

NoCheck == [command |-> "", v |-> "", h |-> "", attempts |-> <<>>, ret |-> FALSE, raised |-> FALSE]

\* StegoAnalyzer.__init__: an empty store and a fresh scratch directory.
SessionInit(machines) ==
  /\ installed \in machines
  /\ faults = 0
  /\ calls = 0
  /\ pc = "idle"
  /\ file_path = ""
  /\ idx = 0
  /\ available_tools = <<>>
  /\ report = NoReport
  /\ results = <<>>
  /\ temp_dir = [t \in SideTools |-> NoFile]
  /\ ret = NoReturn
  /\ invoked = <<>>
  /\ probed = <<>>
  /\ created = {}
  /\ last_check = NoCheck
  /\ recheck_failed = {}
  /\ temp_exists = TRUE

NoArg == [fn |-> "none"]

NoOut == [done |-> FALSE]

\* No document has been written.
NoDocument == [written |-> FALSE]

\* No argument vector: main() is not what drives the analyzer.
NoArgs == [file |-> "", output |-> FALSE]

\* self.results = None, self.current_file = None
None == [none |-> TRUE]

\* No StegoGUI has been constructed.
GuiOff ==
  /\ window = FALSE
  /\ analyze_btn = "normal"
  /\ progress = "stopped"
  /\ status = "Ready"
  /\ current_file = ""
  /\ gui_results = None
  /\ results_text = <<>>
  /\ after_queue = <<>>
  /\ spawned = 0
  /\ running = 0
  /\ started = 0
  /\ handled = 0

\* main() has not been entered.
CliOff ==
  /\ main_pc = "off"
  /\ args = NoArgs
  /\ console = <<>>
  /\ handler = "none"

\* A process that runs, and has saved nothing yet.
ProcInit ==
  /\ proc = "running"
  /\ exit_status = 0
  /\ document = NoDocument

\* The analyzer used as a library: neither front end drives it.
FrontOff == ProcInit /\ CliOff /\ GuiOff

Init ==
  /\ SessionInit(InstalledSets)
  /\ arg = NoArg
  /\ out = NoOut
  /\ FrontOff

\* The kinds a launch of t may end in, and what each costs of the budget of
\* unusual launches: a tool that is not installed is always missing.
KindsOf(t) ==
  IF t \notin installed THEN {"missing"}
  ELSE IF faults < MaxFaults THEN Kinds
  ELSE {"exit0"}

UsualKind(t) == IF t \in installed THEN "exit0" ELSE "missing"

KindCost(t, k) == IF k = UsualKind(t) THEN 0 ELSE 1

UsualLaunch(t, p) == IF t \in installed THEN Usual(t, p) ELSE Absent

LaunchesOf(t, p) ==
  IF t \notin installed THEN {Absent}
  ELSE IF faults < MaxFaults THEN Launches(t, p)
  ELSE {Usual(t, p)}

LaunchCost(t, p, o) == IF o = UsualLaunch(t, p) THEN 0 ELSE 1

\* The two launches of one _check_command(t) call, with their cost; the -h
\* launch is drawn only when it is made.
Checks(t) ==
  {c \in [v : KindsOf(t), h : KindsOf(t)] :
     /\ Len(check_command(c.v, c.h).attempts) = 1 => c.h = UsualKind(t)
     /\ faults + KindCost(t, c.v) + KindCost(t, c.h) <= MaxFaults}

CheckLog(t, c) ==
  [command |-> t, v |-> c.v, h |-> c.h,
   attempts |-> check_command(c.v, c.h).attempts,
   ret |-> check_command(c.v, c.h).ret,
   raised |-> check_command(c.v, c.h).raised]

\* ---------------------------------------------------------- analyze_file
\* the test, were every tool taken to be available
should_run_always(avail, t) == TRUE

\* "if available_tools.get(t):"
should_run(avail, t) == DictGet(avail, t)

\* the insertion, were a runner's "not available" result left out
insert_result_skipping(d, t, r) ==
  IF r = not_available(t) THEN d ELSE DictSet(d, t, r)

\* results["analysis_results"][t] = self.run_t(file_path)
insert_result(d, t, r) == DictSet(d, t, r)

\* analyze_file(p, password) is called: a fresh frame, the path test, then
\* the local results.
AnalyzeFile(p) ==
  /\ pc = "idle"
  /\ calls < MaxCalls
  /\ calls' = calls + 1
  /\ file_path' = p
  /\ invoked' = <<>>
  /\ probed' = <<>>
  /\ created' = {}
  /\ last_check' = NoCheck
  /\ recheck_failed' = {}
  /\ IF ~path_exists(p)
     THEN /\ ret' = Returned(FileNotFound)
          /\ pc' = "idle"
          /\ idx' = 0
          /\ available_tools' = <<>>
          /\ report' = NoReport
     ELSE /\ ret' = NoReturn
          /\ pc' = "probe"
          /\ idx' = 1
          /\ available_tools' = <<>>
          /\ report' = [file_path |-> p, file_size |-> FileSize(p),
                        analysis_results |-> <<>>]
  /\ UNCHANGED <<installed, faults, results, temp_dir, temp_exists, unit_vars>>

\* check_tool_availability, one tool at a time: the dict is built in
\* ToolOrder; an exception out of _check_command ends analyze_file.
ProbeTool ==
  /\ pc = "probe"
  /\ \E c \in Checks(ToolOrder[idx]) :
       LET t == ToolOrder[idx]
           chk == check_command(c.v, c.h)
       IN
       /\ faults' = faults + KindCost(t, c.v) + KindCost(t, c.h)
       /\ last_check' = CheckLog(t, c)
       /\ probed' = Append(probed, t)
       /\ IF chk.raised
          THEN /\ pc' = "idle"
               /\ ret' = Raised
               /\ UNCHANGED <<idx, available_tools>>
          ELSE /\ available_tools' = Append(available_tools, [key |-> t, val |-> chk.ret])
               /\ ret' = ret
               /\ IF idx = Len(ToolOrder)
                  THEN pc' = "run" /\ idx' = 1
                  ELSE pc' = pc /\ idx' = idx + 1
  /\ UNCHANGED <<installed, calls, file_path, report, results, temp_dir,
                 temp_exists, invoked, created, recheck_failed, unit_vars>>

\* "if available_tools.get(t):" is false: analyze_file goes on to the next
\* tool.
SkipTool ==
  /\ pc = "run"
  /\ idx <= Len(ToolOrder)
  /\ ~should_run(available_tools, ToolOrder[idx])
  /\ idx' = idx + 1
  /\ UNCHANGED <<installed, faults, calls, pc, file_path, available_tools, report,
                 results, temp_dir, temp_exists, ret, invoked, probed, created,
                 last_check, recheck_failed, unit_vars>>

\* "if available_tools.get(t): results["analysis_results"][t] = run_t(...)":
\* the runner's own _check_command, its launch (two for binwalk) and the
\* insertion of what it returns.  os.makedirs(..., exist_ok=True) of
\* run_binwalk and run_foremost creates self.temp_dir too if it is gone; the
\* two extraction tools cannot write into a directory that is gone.
RunTool ==
  /\ pc = "run"
  /\ idx <= Len(ToolOrder)
  /\ should_run(available_tools, ToolOrder[idx])
  /\ \E c \in Checks(ToolOrder[idx]) :
     \E o \in LaunchesOf(ToolOrder[idx], file_path) :
     \E o2 \in LaunchesOf(ToolOrder[idx], file_path) :
       LET t == ToolOrder[idx]
           chk == check_command(c.v, c.h)
           launched == ~chk.raised /\ chk.ret
           second == launched /\ t = "binwalk" /\ Ran(o)
           cost == KindCost(t, c.v) + KindCost(t, c.h)
                     + LaunchCost(t, file_path, o) + LaunchCost(t, file_path, o2)
           makes == launched /\ t \in {"binwalk", "foremost"}
           writes == /\ launched /\ t \in SideTools /\ o.wrote
                     /\ (temp_exists \/ makes)
           f == IF t \in SideTools
                THEN (IF writes THEN File(o.data) ELSE temp_dir[t])
                ELSE NoFile
           r == run_tool(t, chk, o, o2, f)
       IN
       /\ ~launched => o = UsualLaunch(t, file_path)
       /\ ~second => o2 = UsualLaunch(t, file_path)
       /\ faults + cost <= MaxFaults
       /\ faults' = faults + cost
       /\ last_check' = CheckLog(t, c)
       /\ invoked' = Append(invoked, t)
       /\ probed' = probed
       /\ temp_exists' = (temp_exists \/ makes)
       /\ temp_dir' = IF writes THEN [temp_dir EXCEPT ![t] = File(o.data)] ELSE temp_dir
       /\ created' = IF writes THEN created \cup {t} ELSE created
       /\ recheck_failed' = IF ~chk.raised /\ ~chk.ret
                            THEN recheck_failed \cup {t} ELSE recheck_failed
       /\ IF r.raised
          THEN /\ pc' = "idle"
               /\ ret' = Raised
               /\ UNCHANGED <<idx, report>>
          ELSE /\ report' = [report EXCEPT !.analysis_results =
                               insert_result(@, t, r.value)]
               /\ idx' = idx + 1
               /\ UNCHANGED <<pc, ret>>
  /\ UNCHANGED <<installed, calls, file_path, available_tools, results, unit_vars>>

\* "self.results[file_path] = results; return results"
Finish ==
  /\ pc = "run"
  /\ idx = Len(ToolOrder) + 1
  /\ results' = DictSet(results, file_path, report)
  /\ ret' = Returned(report)
  /\ pc' = "idle"
  /\ UNCHANGED <<installed, faults, calls, file_path, idx, available_tools, report,
                 temp_dir, temp_exists, invoked, probed, created, last_check,
                 recheck_failed, unit_vars>>

Next ==
  \/ (\E p \in Paths : AnalyzeFile(p)) /\ UNCHANGED front_vars
  \/ ProbeTool /\ UNCHANGED front_vars
  \/ SkipTool /\ UNCHANGED front_vars
  \/ RunTool /\ UNCHANGED front_vars
  \/ Finish /\ UNCHANGED front_vars

Spec == Init /\ [][Next]_vars

\* ------------------------------------------------- runners on their own
\* A runner called with its tool available: _check_command's --version
\* launch exits 0.
AvailableCheck == check_command("exit0", "exit0")

\* A launch that ended in an exit code, printed stdout and (wrote) left the
\* bytes data in the side-channel file.
Exited(kind, stdout, wrote, data) ==
  [kind |-> kind, stdout |-> stdout, stderr |-> <<>>, wrote |-> wrote, data |-> data]

\* run_strings for every short stdout of the string tool.
InitStrings ==
  /\ SessionInit({ToolSet})
  /\ arg \in {[fn |-> "run_strings", o |-> Exited(k, text, FALSE, <<>>)] :
                k \in {"exit0", "exitN"}, text \in SeqsUpTo(Chars, MaxOut)}
  /\ out = NoOut
  /\ FrontOff

\* run_exiftool for every short stdout of the metadata reader.
InitExiftool ==
  /\ SessionInit({ToolSet})
  /\ arg \in {[fn |-> "run_exiftool", o |-> Exited(k, text, FALSE, <<>>)] :
                k \in {"exit0", "exitN"}, text \in SeqsUpTo(JsonTokens, MaxJson)}
  /\ out = NoOut
  /\ FrontOff

\* run_steghide, run_outguess and run_foremost in a fresh scratch directory,
\* for every short side-channel file the tool may write, and for none.
InitSide ==
  /\ SessionInit({ToolSet})
  /\ arg \in {[fn |-> t, o |-> Exited(k, <<>>, w, IF w THEN b ELSE <<>>)] :
                t \in SideTools, k \in {"exit0", "exitN"}, w \in BOOLEAN,
                b \in SeqsUpTo(ByteAlphabet, MaxBytes)}
  /\ out = NoOut
  /\ FrontOff

CallRunStrings ==
  /\ arg.fn = "run_strings"
  /\ ~out.done
  /\ out' = [done |-> TRUE, ret |-> run_strings(AvailableCheck, arg.o)]
  /\ UNCHANGED <<arg, session_vars, front_vars>>

CallRunExiftool ==
  /\ arg.fn = "run_exiftool"
  /\ ~out.done
  /\ out' = [done |-> TRUE, ret |-> run_exiftool(AvailableCheck, arg.o)]
  /\ UNCHANGED <<arg, session_vars, front_vars>>

CallRunSide ==
  /\ arg.fn \in SideTools
  /\ ~out.done
  /\ temp_dir' = IF arg.o.wrote THEN [temp_dir EXCEPT ![arg.fn] = File(arg.o.data)]
                 ELSE temp_dir
  /\ out' = [done |-> TRUE,
             ret |-> run_tool(arg.fn, AvailableCheck, arg.o, arg.o, temp_dir'[arg.fn])]
  /\ UNCHANGED <<arg, installed, faults, calls, pc, file_path, idx, available_tools,
                 report, results, ret, invoked, probed, created, last_check,
                 recheck_failed, temp_exists, front_vars>>

SpecStrings == InitStrings /\ [][CallRunStrings]_vars

SpecExiftool == InitExiftool /\ [][CallRunExiftool]_vars

SpecSide == InitSide /\ [][CallRunSide]_vars

\* -------------------------------------------------------------- renderers
\* The slice [:500] of the extracted content the renderers show.
MaxShown == 500

\* The slice [:10] of the interesting strings the renderers show.
FirstShown == 10

\* The lines a renderer emits.  A colour code is not part of a line.
Blank == [k |-> "blank"]

Rule(ch, n) == [k |-> "rule", ch |-> ch, n |-> n]

Title == [k |-> "title", s |-> "STEGANOGRAPHY ANALYSIS RESULTS"]

FileLine(p) == [k |-> "File:", path |-> p]

SizeLine(n) == [k |-> "Size:", bytes |-> n]

\* f"[{tool_name.upper()}]"
ToolHeader(t) == [k |-> "header", tool |-> t]

\* f"Error: {tool_results['error']}"
ErrorLine(e) == [k |-> "Error:", error |-> e]

NoResultsFound == [k |-> "message", s |-> "No results found"]

Message(m) == [k |-> "message", s |-> m]

\* A field's text, printed as it is.
Text(x) == [k |-> "text", text |-> x]

\* f"{key}: {value}" for the i-th key of the metadata
KeyValue(i) == [k |-> "key: value", i |-> i]

\* f"Found {total} strings, showing first 10 interesting ones:"
FoundLine(total) == [k |-> "Found", total |-> total]

\* f"  {i+1}: {string}"
ItemLine(i, x) == [k |-> "item", i |-> i, text |-> x]

\* What a renderer has emitted, and whether it raised (KeyError,
\* AttributeError) before it was through.
Emitted(lines) == [raised |-> FALSE, lines |-> lines]

Failed(lines) == [raised |-> TRUE, lines |-> lines]

\* tool_results.get(f): the field, or None (an empty text here).
Get(r, f) == IF f \in DOMAIN r THEN r[f] ELSE <<>>

\* tool_results.get("success", False)
Success(r) == IF "success" \in DOMAIN r THEN r.success ELSE FALSE

\* content[:500] + "..." if len(content) > 500 else content
truncate(c) ==
  IF Len(c) > MaxShown THEN Take(c, MaxShown) \o <<".", ".", ".">> ELSE c

\* "for key, value in metadata.items()": one line a key; a value that is no
\* dict has no items() (AttributeError).
metadata_lines(m) ==
  IF m.t = "object" THEN Emitted([i \in 1..m.size |-> KeyValue(i)])
  ELSE Failed(<<>>)

\* "for i, string in enumerate(interesting[:10])"
item_lines(interesting) ==
  [i \in 1..Min(FirstShown, Len(interesting)) |-> ItemLine(i, interesting[i])]

\* The lines of the extracted content of steghide and outguess, the same in
\* both renderers.
extracted_lines(r) ==
  IF Get(r, "extracted_content") # <<>>
  THEN <<Message("Extracted content:"), Text(truncate(r.extracted_content))>>
  ELSE <<Message("No hidden content extracted")>>

\* print_results, the if/elif chain over tool_name (lines 325-360).
print_fields(t, r) ==
  CASE t = "zsteg" ->
         Emitted(IF Get(r, "output") # <<>> THEN <<Text(r.output)>> ELSE <<>>)
    [] t \in {"steghide", "outguess"} -> Emitted(extracted_lines(r))
    [] t = "exiftool" ->
         metadata_lines(IF "metadata" \in DOMAIN r THEN r.metadata ELSE EmptyDict)
    [] t = "binwalk" ->
         Emitted(IF Get(r, "signatures") # <<>> THEN <<Text(r.signatures)>> ELSE <<>>)
    [] t = "foremost" ->
         Emitted(IF Get(r, "audit") # <<>> THEN <<Text(r.audit)>> ELSE <<>>)
    [] t = "strings" ->
         Emitted(IF Get(r, "interesting_strings") # <<>>
                 THEN <<FoundLine(IF "total_strings" \in DOMAIN r
                                  THEN r.total_strings ELSE 0)>>
                        \o item_lines(r.interesting_strings)
                 ELSE <<>>)

\* print_results, one turn of its loop: the header, then the error line and
\* "continue", or "No results found" (with no "continue") and the fields.
print_tool(t, r) ==
  LET head == <<Blank, ToolHeader(t), Rule("-", 40)>> IN
  IF "error" \in DOMAIN r THEN Emitted(head \o <<ErrorLine(r.error)>>)
  ELSE
    LET none == IF ~Success(r) THEN <<NoResultsFound>> ELSE <<>>
        body == print_fields(t, r)
    IN [raised |-> body.raised, lines |-> head \o none \o body.lines]

\* display_results, the if/elif chain over tool_name (lines 226-273).
display_fields(t, r) ==
  CASE t = "zsteg" ->
         Emitted(IF Get(r, "output") # <<>> THEN <<Text(r.output)>> ELSE <<>>)
    [] t \in {"steghide", "outguess"} -> Emitted(extracted_lines(r))
    [] t = "exiftool" ->
         LET m == IF "metadata" \in DOMAIN r THEN r.metadata ELSE EmptyDict IN
         IF m = EmptyDict \/ (m.t = "array" /\ m.items = <<>>)
         THEN Emitted(<<Message("No metadata found")>>)
         ELSE metadata_lines(m)
    [] t = "binwalk" ->
         Emitted(IF Get(r, "signatures") # <<>> THEN <<Text(r.signatures)>>
                 ELSE <<Message("No signatures found")>>)
    [] t = "foremost" ->
         Emitted(IF Get(r, "audit") # <<>> THEN <<Text(r.audit)>>
                 ELSE <<Message("No carved files found")>>)
    [] t = "strings" ->
         Emitted(IF Get(r, "interesting_strings") # <<>>
                 THEN <<FoundLine(IF "total_strings" \in DOMAIN r
                                  THEN r.total_strings ELSE 0)>>
                        \o item_lines(r.interesting_strings)
                 ELSE <<Message("No interesting strings found")>>)

\* display_results, one turn of its loop: the error line and "continue",
\* "No results found" and "continue", or the fields and a blank line.
display_tool(t, r) ==
  LET head == <<ToolHeader(t), Rule("-", 40)>> IN
  IF "error" \in DOMAIN r THEN Emitted(head \o <<ErrorLine(r.error), Blank>>)
  ELSE IF ~Success(r) THEN Emitted(head \o <<NoResultsFound, Blank>>)
  ELSE
    LET body == display_fields(t, r) IN
    IF body.raised THEN Failed(head \o body.lines)
    ELSE Emitted(head \o body.lines \o <<Blank>>)

RECURSIVE print_loop(_, _)
\* "for tool_name, tool_results in results["analysis_results"].items()" of
\* print_results from entry i on; an exception ends the loop.
print_loop(d, i) ==
  IF i > Len(d) THEN Emitted(<<>>)
  ELSE
    LET one == print_tool(d[i].key, d[i].val) IN
    IF one.raised THEN one
    ELSE LET rest == print_loop(d, i + 1) IN
         [raised |-> rest.raised, lines |-> one.lines \o rest.lines]

RECURSIVE display_loop(_, _)
\* The same loop of display_results.
display_loop(d, i) ==
  IF i > Len(d) THEN Emitted(<<>>)
  ELSE
    LET one == display_tool(d[i].key, d[i].val) IN
    IF one.raised THEN one
    ELSE LET rest == display_loop(d, i + 1) IN
         [raised |-> rest.raised, lines |-> one.lines \o rest.lines]

\* print_results(results): the banner, results['file_path'] (KeyError for
\* the file-not-found value, which has no such key), and the loop.
print_results(r) ==
  LET banner == <<Blank, Rule("=", 60), Title, Rule("=", 60)>> IN
  IF "file_path" \notin DOMAIN r THEN Failed(banner)
  ELSE
    LET head == banner \o <<Blank, FileLine(r.file_path), SizeLine(r.file_size)>>
        body == print_loop(r.analysis_results, 1)
    IN [raised |-> body.raised, lines |-> head \o body.lines]

\* display_results(results): the text is assembled in a local and inserted
\* at the end (line 277); an exception leaves the area as delete() made it,
\* empty.
display_results(r) ==
  IF "file_path" \notin DOMAIN r THEN Failed(<<>>)
  ELSE
    LET head == <<Title, Rule("=", 60), Blank, FileLine(r.file_path),
                  SizeLine(r.file_size), Blank>>
        body == display_loop(r.analysis_results, 1)
    IN IF body.raised THEN Failed(<<>>)
       ELSE Emitted(head \o body.lines)

\* The tool-results a runner can return for a launch on path p.
ToolResults(t, p) ==
  {run_tool(t, chk, o, o2, f).value :
     chk \in {AvailableCheck, check_command("exitN", "exit0")},
     o \in Launches(t, p), o2 \in {Usual(t, p), Absent},
     f \in {NoFile, File(Payload(p))}}

\* The values analyze_file can return that the renderers are called with:
\* the file-not-found value, and Reports of one tool and of two.
RenderInputs ==
  {FileNotFound}
    \cup UNION {{[file_path |-> "b.png", file_size |-> FileSize("b.png"),
                  analysis_results |-> <<[key |-> t, val |-> r]>>] :
                   r \in ToolResults(t, "b.png")} : t \in ToolSet}
    \cup {[file_path |-> "a.png", file_size |-> FileSize("a.png"),
           analysis_results |-> <<[key |-> "zsteg", val |-> r1],
                                  [key |-> "strings", val |-> r2]>>] :
            r1 \in ToolResults("zsteg", "a.png"),
            r2 \in ToolResults("strings", "a.png")}

InitRender ==
  /\ SessionInit({ToolSet})
  /\ arg \in {[fn |-> "render", results |-> r] : r \in RenderInputs}
  /\ out = NoOut
  /\ FrontOff

\* Both renderers on the same value.
CallRender ==
  /\ arg.fn = "render"
  /\ ~out.done
  /\ out' = [done |-> TRUE, printed |-> print_results(arg.results),
             displayed |-> display_results(arg.results)]
  /\ UNCHANGED <<arg, session_vars, front_vars>>

SpecRender == InitRender /\ [][CallRender]_vars

\* "'file_path' in results": the value is a Report, not the file-not-found
\* value.
IsReportValue(v) == "file_path" \in DOMAIN v

\* ------------------------------------------------------------------- save
\* json.dump(obj, f, indent=2, default=str) of a dict: the members of the
\* document's top-level object, in the dict's order.  store is history: the
\* results store as it was when the document was written.
json_dump(members, store) == [written |-> TRUE, top |-> members, store |-> store]

\* The items of a Report, a dict of three keys.
report_items(r) ==
  <<[key |-> "file_path", val |-> r.file_path],
    [key |-> "file_size", val |-> r.file_size],
    [key |-> "analysis_results", val |-> r.analysis_results]>>

\* The items of the dict a save of the form dumps: a Report's, or those of
\* the file-not-found value.
dict_items(v) ==
  IF IsReportValue(v) THEN report_items(v)
  ELSE <<[key |-> "error", val |-> v.error]>>

\* shutil.rmtree(self.temp_dir): the side-channel files go with it.
NoFiles == [t \in SideTools |-> NoFile]

\* ------------------------------------------------------------------ main()
\* str(e) of the exception the generic clause of main caught.
KeyErrorText == <<"'file_path'">>

RaisedText == <<"PermissionError">>

AttributeErrorText == <<"no attribute 'items'">>

\* main() without --gui: "analyzer = StegoAnalyzer()" has run, the try block
\* is about to be entered.
InitMain ==
  /\ SessionInit(InstalledSets)
  /\ arg = NoArg
  /\ out = NoOut
  /\ ProcInit
  /\ GuiOff
  /\ main_pc = "start"
  /\ args \in [file : Paths, output : BOOLEAN]
  /\ console = <<>>
  /\ handler = "none"

\* "results = analyzer.analyze_file(args.file, args.password)" is entered.
MainAnalyze ==
  /\ main_pc = "start"
  /\ AnalyzeFile(args.file)
  /\ main_pc' = "analyze"
  /\ UNCHANGED <<proc, exit_status, document, args, console, handler, gui_vars>>

\* analyze_file goes on, in main's thread.
MainStep(A) ==
  /\ main_pc = "analyze"
  /\ A
  /\ UNCHANGED front_vars

\* analyze_file has returned: "analyzer.print_results(results)".  What the
\* renderer printed before an exception stays on the console; the exception
\* goes to "except Exception", which prints str(e).
MainPrint ==
  /\ main_pc = "analyze"
  /\ pc = "idle"
  /\ ret.kind = "value"
  /\ LET r == print_results(ret.value) IN
     IF r.raised
     THEN /\ handler' = "Exception"
          /\ console' = console \o r.lines
                          \o <<ErrorLine(IF IsReportValue(ret.value)
                                         THEN AttributeErrorText ELSE KeyErrorText)>>
          /\ main_pc' = "cleanup"
     ELSE /\ handler' = handler
          /\ console' = console \o r.lines
          /\ main_pc' = IF args.output THEN "save" ELSE "cleanup"
  /\ UNCHANGED <<session_vars, unit_vars, proc, exit_status, document, args, gui_vars>>

\* analyze_file has raised: "except Exception as e: print(Error: str(e))".
MainRaised ==
  /\ main_pc = "analyze"
  /\ pc = "idle"
  /\ ret.kind = "raised"
  /\ handler' = "Exception"
  /\ console' = Append(console, ErrorLine(RaisedText))
  /\ main_pc' = "cleanup"
  /\ UNCHANGED <<session_vars, unit_vars, proc, exit_status, document, args, gui_vars>>

\* "if args.output: analyzer.save_results(args.output)": the whole store is
\* dumped.
MainSave ==
  /\ main_pc = "save"
  /\ document' = json_dump(results, results)
  /\ console' = Append(console, Message("Results saved to:"))
  /\ main_pc' = "cleanup"
  /\ UNCHANGED <<session_vars, unit_vars, proc, exit_status, args, handler, gui_vars>>

\* Ctrl-C inside the try block: KeyboardInterrupt leaves whatever runs and
\* reaches "except KeyboardInterrupt".
MainInterrupt ==
  /\ main_pc \in {"analyze", "save"}
  /\ handler' = "KeyboardInterrupt"
  /\ console' = Append(console, Message("Analysis interrupted by user"))
  /\ main_pc' = "cleanup"
  /\ pc' = "idle"
  /\ ret' = IF pc = "idle" THEN ret ELSE [kind |-> "interrupted"]
  /\ UNCHANGED <<installed, faults, calls, file_path, idx, available_tools, report,
                 results, temp_dir, temp_exists, invoked, probed, created,
                 last_check, recheck_failed, unit_vars, proc, exit_status,
                 document, args, gui_vars>>

\* StegoAnalyzer.cleanup: the scratch directory is removed with all in it.
cleanup ==
  /\ temp_exists' = FALSE
  /\ temp_dir' = NoFiles

\* "finally: analyzer.cleanup()"
MainCleanup ==
  /\ main_pc = "cleanup"
  /\ cleanup
  /\ main_pc' = "return"
  /\ UNCHANGED <<installed, faults, calls, pc, file_path, idx, available_tools,
                 report, results, ret, invoked, probed, created, last_check,
                 recheck_failed, unit_vars, proc, exit_status, document, args,
                 console, handler, gui_vars>>

\* main() returns and the interpreter exits with status 0.
MainExit ==
  /\ main_pc = "return"
  /\ proc' = "exited"
  /\ exit_status' = 0
  /\ main_pc' = "done"
  /\ UNCHANGED <<session_vars, unit_vars, document, args, console, handler, gui_vars>>

NextMain ==
  \/ MainAnalyze
  \/ MainStep(ProbeTool)
  \/ MainStep(SkipTool)
  \/ MainStep(RunTool)
  \/ MainStep(Finish)
  \/ MainPrint
  \/ MainRaised
  \/ MainSave
  \/ MainInterrupt
  \/ MainCleanup
  \/ MainExit

SpecMain == InitMain /\ [][NextMain]_vars

\* ---------------------------------------------------------------- StegoGUI
\* The form: its handlers run one at a time on the main loop, run_analysis
\* on a daemon thread of its own.  check_tools and update_tool_status, which
\* probe the tools and show the outcome in a message box, start no analysis
\* and write neither the store nor the scratch directory; they have no
\* action here.
\* self.analyze_btn.config(state="disabled"), were the button left as it is
button_left_enabled == "normal"

\* self.analyze_btn.config(state="disabled")
button_after_start == "disabled"

\* The machines the form is run on: one with an extraction tool and the
\* scan+extract tool, the other tools missing.
GuiMachines == {{"steghide", "binwalk"}}

\* StegoGUI() has been constructed and run() has entered root.mainloop().
InitGui ==
  /\ SessionInit(GuiMachines)
  /\ arg = NoArg
  /\ out = NoOut
  /\ ProcInit
  /\ args = NoArgs
  /\ console = <<>>
  /\ handler = "none"
  /\ main_pc = "mainloop"
  /\ window = TRUE
  /\ analyze_btn = "normal"
  /\ progress = "stopped"
  /\ status = "Ready"
  /\ current_file = ""
  /\ gui_results = None
  /\ results_text = <<>>
  /\ after_queue = <<>>
  /\ spawned = 0
  /\ running = 0
  /\ started = 0
  /\ handled = 0

\* browse_file: the user picks the path p in the file dialog.
GuiBrowse(p) ==
  /\ window
  /\ current_file' = p
  /\ status' = "Selected"
  /\ UNCHANGED <<session_vars, unit_vars, proc, exit_status, document, cli_vars,
                 window, analyze_btn, progress, gui_results, results_text,
                 after_queue, spawned, running, started, handled>>

\* start_analysis, the command of the Analyze File button: Tk runs it only
\* while the button is enabled.  With no file selected, or one that does not
\* exist, it shows an error box and returns.
GuiStartAnalysis ==
  /\ window
  /\ analyze_btn = "normal"
  /\ started < MaxCalls
  /\ IF current_file = "" \/ ~path_exists(current_file)
     THEN UNCHANGED <<analyze_btn, progress, status, spawned, started>>
     ELSE /\ analyze_btn' = button_after_start
          /\ progress' = "running"
          /\ status' = "Analyzing file..."
          /\ spawned' = spawned + 1
          /\ started' = started + 1
  /\ UNCHANGED <<session_vars, unit_vars, proc, exit_status, document, cli_vars,
                 window, current_file, gui_results, results_text, after_queue,
                 running, handled>>

\* run_analysis on its thread reads self.current_file and calls analyze_file.
WorkerCall ==
  /\ proc = "running"
  /\ spawned > 0
  /\ running = 0
  /\ AnalyzeFile(current_file)
  /\ spawned' = spawned - 1
  /\ running' = running + 1
  /\ UNCHANGED <<proc, exit_status, document, cli_vars, window, analyze_btn,
                 progress, status, current_file, gui_results, results_text,
                 after_queue, started, handled>>

\* analyze_file goes on, on the worker thread, while the process lives.
WorkerStep(A) ==
  /\ proc = "running"
  /\ running > 0
  /\ A
  /\ UNCHANGED front_vars

\* run_analysis after analyze_file: root.after(0, ...) posts analysis_complete
\* with the value returned, or analysis_error if it raised.  With the main
\* loop over, root.after raises and the thread ends with nothing posted.
WorkerPost ==
  /\ proc = "running"
  /\ running > 0
  /\ pc = "idle"
  /\ ret.kind \in {"value", "raised"}
  /\ running' = running - 1
  /\ after_queue' =
       IF ~window THEN after_queue
       ELSE IF ret.kind = "value"
       THEN Append(after_queue, [cb |-> "analysis_complete", results |-> ret.value])
       ELSE Append(after_queue, [cb |-> "analysis_error"])
  /\ UNCHANGED <<session_vars, unit_vars, proc, exit_status, document, cli_vars,
                 window, analyze_btn, progress, status, current_file, gui_results,
                 results_text, spawned, started, handled>>

\* The main loop runs the oldest posted callback.  analysis_complete stops
\* the bar, enables the button and displays; an exception in display_results
\* leaves the status as it is.  The lambda of analysis_error reads the name
\* e of run_analysis's except clause, which Python unbinds when the clause is
\* left: run before that (bound) it calls analysis_error, run after it the
\* lambda raises NameError and analysis_error is never called.
GuiCallback ==
  /\ window
  /\ after_queue # <<>>
  /\ after_queue' = Tail(after_queue)
  /\ LET c == Head(after_queue) IN
     CASE c.cb = "analysis_complete" ->
            LET d == display_results(c.results) IN
            /\ progress' = "stopped"
            /\ analyze_btn' = "normal"
            /\ gui_results' = c.results
            /\ results_text' = d.lines
            /\ status' = IF d.raised THEN status ELSE "Analysis complete"
            /\ handled' = handled + 1
       [] c.cb = "analysis_error" ->
            \E bound \in BOOLEAN :
              IF bound
              THEN /\ progress' = "stopped"
                   /\ analyze_btn' = "normal"
                   /\ status' = "Analysis failed"
                   /\ handled' = handled + 1
                   /\ UNCHANGED <<gui_results, results_text>>
              ELSE UNCHANGED <<progress, analyze_btn, status, handled,
                               gui_results, results_text>>
  /\ UNCHANGED <<session_vars, unit_vars, proc, exit_status, document, cli_vars,
                 window, current_file, spawned, running, started>>

\* clear_results
GuiClear ==
  /\ window
  /\ results_text' = <<>>
  /\ gui_results' = None
  /\ status' = "Results cleared"
  /\ UNCHANGED <<session_vars, unit_vars, proc, exit_status, document, cli_vars,
                 window, analyze_btn, progress, current_file, after_queue,
                 spawned, running, started, handled>>

\* save_results of the form (a warning box and nothing else while
\* self.results is None), the user choosing a .json name (json) or
\* another: json.dump(self.results, ...) dumps the Report last displayed, the
\* other branch writes the text of the results area.
GuiSave(json) ==
  /\ window
  /\ IF gui_results = None
     THEN UNCHANGED <<document, status>>
     ELSE /\ document' = IF json THEN json_dump(dict_items(gui_results), results)
                         ELSE [written |-> TRUE, text |-> results_text,
                               store |-> results]
          /\ status' = "Results saved"
  /\ UNCHANGED <<session_vars, unit_vars, proc, exit_status, cli_vars, window,
                 analyze_btn, progress, current_file, gui_results, results_text,
                 after_queue, spawned, running, started, handled>>

\* The window is closed: root.mainloop() returns, and the callbacks still
\* posted are never run.
GuiClose ==
  /\ window
  /\ window' = FALSE
  /\ after_queue' = <<>>
  /\ main_pc' = "cleanup"
  /\ UNCHANGED <<session_vars, unit_vars, proc, exit_status, document, args,
                 console, handler, analyze_btn, progress, status, current_file,
                 gui_results, results_text, spawned, running, started,
                 handled>>

\* run(), after the main loop: "self.analyzer.cleanup()".  The worker thread
\* is a daemon and is not waited for.
GuiCleanup ==
  /\ main_pc = "cleanup"
  /\ ~window
  /\ cleanup
  /\ main_pc' = "return"
  /\ UNCHANGED <<installed, faults, calls, pc, file_path, idx, available_tools,
                 report, results, ret, invoked, probed, created, last_check,
                 recheck_failed, unit_vars, proc, exit_status, document, args,
                 console, handler, gui_vars>>

\* run() returns and the interpreter exits; its daemon threads end with it.
GuiExit ==
  /\ main_pc = "return"
  /\ ~window
  /\ proc' = "exited"
  /\ exit_status' = 0
  /\ main_pc' = "done"
  /\ UNCHANGED <<session_vars, unit_vars, document, args, console, handler, gui_vars>>

NextGui ==
  \/ \E p \in Paths : GuiBrowse(p)
  \/ GuiStartAnalysis
  \/ WorkerCall
  \/ WorkerStep(ProbeTool)
  \/ WorkerStep(SkipTool)
  \/ WorkerStep(RunTool)
  \/ WorkerStep(Finish)
  \/ WorkerPost
  \/ GuiCallback
  \/ GuiClear
  \/ \E json \in BOOLEAN : GuiSave(json)
  \/ GuiClose
  \/ GuiCleanup
  \/ GuiExit

SpecGui == InitGui /\ [][NextGui]_vars

\* The worker thread is scheduled while the process lives, and the main loop
\* runs a posted callback while the window is open.
WorkerThread ==
  \/ WorkerCall
  \/ WorkerStep(ProbeTool)
  \/ WorkerStep(SkipTool)
  \/ WorkerStep(RunTool)
  \/ WorkerStep(Finish)
  \/ WorkerPost

SpecGuiFair == SpecGui /\ WF_vars(WorkerThread) /\ WF_vars(GuiCallback)

\* =================================================================== claims
\* A value analyze_file returns is a Report (not the file-not-found value).
IsReport(v) == "analysis_results" \in DOMAIN v

\* This call has returned a Report.
ReturnedReport == ret.kind = "value" /\ IsReport(ret.value)

\* The tools check_tool_availability has reported available in this call.
FoundAvailable ==
  {available_tools[i].key : i \in {j \in 1..Len(available_tools) : available_tools[j].val}}

IsFoundAvailable(t) == t \in FoundAvailable

\* check_tool_availability has returned in this call.
ProbeReturned == Len(available_tools) = Len(ToolOrder)

\* The content field a side-channel runner fills from its file.
Content(r) == IF "audit" \in DOMAIN r THEN r.audit ELSE r.extracted_content

\* C1: every key of a Report is a fixed tool identifier that the call's
\* check_tool_availability reported available; a run_* function is called
\* only for such a tool; and where no tool is installed the returned Report's
\* mapping is empty.
C1_KeysWereProbedAvailable ==
  /\ \A i \in 1..Len(report.analysis_results) :
       /\ report.analysis_results[i].key \in ToolSet
       /\ report.analysis_results[i].key \in FoundAvailable
  /\ \A i \in 1..Len(invoked) : invoked[i] \in FoundAvailable
  /\ ReturnedReport =>
       /\ \A i \in 1..Len(ret.value.analysis_results) :
            ret.value.analysis_results[i].key \in FoundAvailable
       /\ FoundAvailable = {} => ret.value.analysis_results = <<>>
       /\ installed = {} => ret.value.analysis_results = <<>>

\* A Report was returned on a machine that lacks one tool: the six others
\* are its keys.
C1_Witness ==
  /\ ReturnedReport
  /\ Cardinality(FoundAvailable) = Len(ToolOrder) - 1
  /\ Len(ret.value.analysis_results) = Len(ToolOrder) - 1

\* C2: a call on a path that does not exist returns {"error": "File not
\* found"} at once: it raises nothing, launches no probe and no tool, and
\* leaves the results store and the scratch directory as they were; no call
\* on such a path is ever past the path test.
C2_MissingFileShortCircuits ==
  /\ [](pc # "idle" => file_path \in ExistingPaths)
  /\ [][(pc = "idle" /\ calls' = calls + 1 /\ file_path' \notin ExistingPaths) =>
          /\ ret' = Returned(FileNotFound)
          /\ pc' = "idle"
          /\ probed' = <<>>
          /\ invoked' = <<>>
          /\ results' = results
          /\ temp_dir' = temp_dir
          /\ faults' = faults]_vars

\* A call on gone.png has returned the file-not-found value in a session
\* whose store already holds a Report.
C2_Witness ==
  /\ ret = Returned(FileNotFound)
  /\ file_path = "gone.png"
  /\ results # <<>>
  /\ probed = <<>>

\* C3 (as claimed): analyze_file never raises, whatever a launch does, and a
\* result that carries an error carries nothing else.
C3_LaunchFailuresContained ==
  /\ ret # Raised
  /\ \A i \in 1..Len(report.analysis_results) :
       "error" \in DOMAIN report.analysis_results[i].val
         => DOMAIN report.analysis_results[i].val = {"error"}

\* C4 (as claimed): when a call whose probe has returned is over, the run_*
\* functions it called are the tools found available, once each and in
\* ToolOrder, and the keys of its Report are the same sequence.
C4_EachAvailableToolOnceInOrder ==
  (pc = "idle" /\ ProbeReturned /\ (ret = Raised \/ ReturnedReport)) =>
    /\ invoked = SelectSeq(ToolOrder, IsFoundAvailable)
    /\ DictKeys(report.analysis_results) = invoked

\* C5 (as claimed): a --version launch that ends in a non-zero exit code, a
\* missing executable or a timeout is followed by exactly one -h launch, and
\* the tool is available iff one of the launches made exits 0.
C5_ProbeRetriesWithHelp ==
  last_check.command # "" =>
    /\ last_check.v \in {"exitN", "missing", "timeout"}
         => last_check.attempts = <<"--version", "-h">>
    /\ ~last_check.raised =>
         (last_check.ret <=>
            \/ last_check.v = "exit0"
            \/ Len(last_check.attempts) = 2 /\ last_check.h = "exit0")

\* C6 (as claimed): no Report holds an entry {"error": "<tool> not
\* available"}.
C6_NoUnavailableEntry ==
  \A i \in 1..Len(report.analysis_results) :
    report.analysis_results[i].val # not_available(report.analysis_results[i].key)

\* C6 (amended): a tool that check_tool_availability reported unavailable
\* has no entry; a tool it reported available and whose runner's own
\* _check_command then says no has the entry {"error": "<tool> not
\* available"}, and no other entry is of that form.
C6_UnavailableEntryIffRecheckFailed ==
  \A t \in ToolSet :
    /\ t \notin FoundAvailable => ~DictHas(report.analysis_results, t)
    /\ t \in recheck_failed =>
         /\ t \in FoundAvailable
         /\ DictHas(report.analysis_results, t)
    /\ DictHas(report.analysis_results, t) =>
         (DictGet(report.analysis_results, t) = not_available(t) <=> t \in recheck_failed)

\* A returned Report holds a "not available" entry for a tool that passed
\* the probe, beside a tool the probe found missing.
C6_Witness ==
  /\ ReturnedReport
  /\ recheck_failed # {}
  /\ FoundAvailable # ToolSet
  /\ \E t \in recheck_failed :
       DictGet(ret.value.analysis_results, t) = not_available(t)

\* C7 (as claimed): a side-channel runner whose launch in this call did not
\* write its file reports an empty content field.
C7_NoStaleContent ==
  \A i \in 1..Len(report.analysis_results) :
    LET e == report.analysis_results[i] IN
    (e.key \in SideTools /\ "error" \notin DOMAIN e.val /\ e.key \notin created)
      => Content(e.val) = <<>>

\* The lines of a text: the pieces that newlines end or separate.
Lines(s) ==
  IF s = <<>> THEN <<>>
  ELSE IF s[Len(s)] = "\n" THEN split(SubSeq(s, 1, Len(s) - 1), "\n")
  ELSE split(s, "\n")

IsLong(l) == Len(l) > MinInteresting

\* C8 (as claimed): total_strings is the number of lines of the stdout and
\* interesting_strings the first 100 of its lines longer than 5 characters.
C8_StringsCountsAndFilters ==
  (arg.fn = "run_strings" /\ out.done) =>
    /\ out.ret.value.total_strings = Len(Lines(arg.o.stdout))
    /\ out.ret.value.interesting_strings =
         Take(SelectSeq(Lines(arg.o.stdout), IsLong), MaxInteresting)

\* C9 (as claimed): run_exiftool returns no error-result for any stdout;
\* success is the exit code's, and metadata is the parsed array's first
\* element when the stdout starts with "[", parses and has one, else {}.
C9_MalformedMetadataDegrades ==
  (arg.fn = "run_exiftool" /\ out.done) =>
    /\ ~out.ret.raised
    /\ "error" \notin DOMAIN out.ret.value
    /\ out.ret.value.success = (arg.o.kind = "exit0")
    /\ out.ret.value.metadata =
         (IF /\ starts_with_array(arg.o.stdout)
             /\ json_loads(arg.o.stdout).ok
             /\ json_loads(arg.o.stdout).val.items # <<>>
          THEN json_loads(arg.o.stdout).val.items[1]
          ELSE EmptyDict)

\* The bytes b hold a sequence that is not UTF-8.
HasInvalidBytes(b) == utf8_decode(b, "replace") # utf8_decode(b, "ignore")

RECURSIVE Without(_, _)
\* s without the occurrences of x.
Without(s, x) ==
  IF s = <<>> THEN <<>>
  ELSE IF Head(s) = x THEN Without(Tail(s), x)
  ELSE <<Head(s)>> \o Without(Tail(s), x)

\* C10 (as claimed): the content field is the file's text with U+FFFD in the
\* place of each invalid sequence.
C10_InvalidBytesReplaced ==
  (arg.fn \in SideTools /\ out.done /\ arg.o.wrote) =>
    /\ "error" \notin DOMAIN out.ret.value
    /\ Content(out.ret.value) = utf8_decode(arg.o.data, "replace")

\* C10 (amended): no decoding error is raised, and the content field is the
\* file's text with each invalid sequence dropped: the valid characters in
\* their order, with no replacement character where the invalid bytes were.
C10_InvalidBytesDropped ==
  (arg.fn \in SideTools /\ out.done) =>
    /\ ~out.ret.raised
    /\ "error" \notin DOMAIN out.ret.value
    /\ Content(out.ret.value) =
         (IF arg.o.wrote THEN Without(utf8_decode(arg.o.data, "replace"), 65533)
          ELSE <<>>)

\* An extractor has read a file with invalid bytes between valid text and
\* reports the valid text alone.
C10_Witness ==
  /\ arg.fn \in SideTools
  /\ out.done
  /\ arg.o.wrote
  /\ HasInvalidBytes(arg.o.data)
  /\ arg.o.data = <<65, 255, 195, 169>>
  /\ Content(out.ret.value) = <<65, 233>>

\* The lines of a rendering that carry content: all but the blank lines and
\* the rules.
content_lines(lines) == SelectSeq(lines, LAMBDA l : l.k \notin {"blank", "rule"})

\* The content lines a rendering has for the i-th tool of the Report: those
\* from its header up to the next header.
RECURSIVE SectionFrom(_)
SectionFrom(lines) ==
  IF lines = <<>> \/ Head(lines).k = "header" THEN <<>>
  ELSE <<Head(lines)>> \o SectionFrom(Tail(lines))

RECURSIVE SectionOf(_, _)
SectionOf(lines, t) ==
  IF lines = <<>> THEN <<>>
  ELSE IF Head(lines) = ToolHeader(t) THEN SectionFrom(Tail(lines))
  ELSE SectionOf(Tail(lines), t)

\* C11: the console renderer and the form renderer emit the same sequence of
\* content lines for every Report; in both, a tool-result with an error field
\* renders as the single error line, and one with success = false and no
\* error field as "No results found" with no field of that tool after it.
C11_RenderersEquivalent ==
  (out.done /\ arg.fn = "render" /\ IsReport(arg.results)) =>
    /\ out.printed.raised = out.displayed.raised
    /\ content_lines(out.printed.lines) = content_lines(out.displayed.lines)
    /\ \A i \in 1..Len(arg.results.analysis_results) :
         LET t == arg.results.analysis_results[i].key
             r == arg.results.analysis_results[i].val
         IN \A lines \in {content_lines(out.printed.lines),
                          content_lines(out.displayed.lines)} :
              /\ "error" \in DOMAIN r => SectionOf(lines, t) = <<ErrorLine(r.error)>>
              /\ ("error" \notin DOMAIN r /\ ~r.success) =>
                   SectionOf(lines, t) = <<NoResultsFound>>

\* C12: a save to a .json file writes one document whose top-level mapping
\* is the whole results store: one entry per path analyzed, keyed by the
\* path, in the order of first analysis, holding the path's latest Report.
C12_SaveWritesWholeStore ==
  (document.written /\ "top" \in DOMAIN document) =>
    /\ DictKeys(document.top) = DictKeys(document.store)
    /\ \A i \in 1..Len(document.top) : document.top[i].val = document.store[i].val

\* The console shows the file-not-found outcome as an error line.
ShowsFileNotFound ==
  \E i \in 1..Len(console) :
    console[i].k = "Error:" /\ console[i].error = <<"File not found">>

\* C13: main() on a file that does not exist ends with exit status 0, the
\* console showing the "File not found" error, and no except clause of main
\* having run.
C13_MissingFileReportedInReport ==
  (proc = "exited" /\ ~path_exists(args.file) /\ handler # "KeyboardInterrupt") =>
    /\ exit_status = 0
    /\ handler = "none"
    /\ ShowsFileNotFound

\* C14: when the process has ended, the scratch directory does not exist.
C14_ScratchDeletedAtExit == proc = "exited" => ~temp_exists

\* C15: every analysis start_analysis starts is followed, while the window
\* stays open, by exactly one completion or error callback, which leaves the
\* progress bar stopped and the Analyze File button enabled.
C15_EveryAnalysisCalledBack ==
  /\ [](handled <= started)
  /\ \A n \in 1..MaxCalls :
       [](started = n =>
            <>(\/ ~window
               \/ handled = n /\ progress = "stopped" /\ analyze_btn = "normal"))

\* The run_analysis threads that have not yet posted their callback.
InFlight == spawned + running

\* C16: at most one analysis is in flight; start_analysis leaves the button
\* disabled when it starts a worker, and the button is enabled again only by
\* a callback run when no worker is in flight.
C16_AtMostOneInFlight ==
  /\ [](InFlight <= 1)
  /\ [][spawned' > spawned => analyze_btn' = "disabled"]_vars
  /\ [][(analyze_btn = "disabled" /\ analyze_btn' = "normal") =>
          (InFlight = 0 /\ handled' = handled + 1)]_vars

\* A second analysis is in flight, the first one called back.
C16_Witness ==
  /\ started = 2
  /\ handled = 1
  /\ running = 1
  /\ pc = "run"
  /\ analyze_btn = "disabled"

====
